---- MODULE Spec2Model ----
(***************************************************************************)
(* Model of the stroke-extraction core of getchar.py: augment_glyph,       *)
(* break_path, get_cusps and the Cusp class (connect, merge, _get_angle,   *)
(* _get_tangents, _try_connect).                                           *)
(*                                                                         *)
(* Numbers.  A point or vector is a complex number with integer real and   *)
(* imaginary part, written <<re, im>>.  An angle returned by _get_angle is *)
(* atan2(ratio.imag, ratio.real) with ratio = vector1/vector2; the model   *)
(* keeps the exact direction <<x, y>> = vector1 * conj(vector2) of that    *)
(* ratio (a positive multiple of it), so the angle is atan2(y, x) and every *)
(* comparison the code makes on angles is decided exactly on <<x, y>>.     *)
(* When the two vectors are exactly antiparallel the code's angle is +pi   *)
(* or -pi depending on the sign of a floating-point zero; the model leaves *)
(* that sign open (sg2, sg3 of try_connect).  Inputs are paths whose       *)
(* chords have integral length, so abs() of a chord is an exact integer.   *)
(***************************************************************************)
EXTENDS Integers, Sequences, FiniteSets

\* ---------------------------------------------------------------- constants
MAX_CROSSING_DISTANCE == 64
MAX_CUSP_MERGE_DISTANCE == 15
\* MIN_CUSP_ANGLE = 0.1*pi.  tan(0.1*pi) lies strictly between the adjacent
\* continued-fraction convergents 708/2179 and 17803/54792, so for integers
\* 0 < x < 56971:  y/x > tan(0.1*pi)  <=>  y/x > 708/2179.
MIN_CUSP_ANGLE == <<708, 2179>>
\* The literal 0.3*math.pi of _try_connect.  tan(0.3*pi) lies strictly between
\* the adjacent convergents 2739/1990 and 60631/44051.
CONNECT_ANGLE == <<2739, 1990>>

\* ------------------------------------------------------------------- bounds
MaxSegs == 4

\* ------------------------------------------------------- complex arithmetic
Zero == <<0, 0>>
Sub(p, q) == <<p[1] - q[1], p[2] - q[2]>>
Norm2(v) == v[1] * v[1] + v[2] * v[2]
AbsInt(n) == IF n < 0 THEN -n ELSE n

RECURSIVE isqrtFrom(_, _)
isqrtFrom(n, r) == IF (r + 1) * (r + 1) > n THEN r ELSE isqrtFrom(n, r + 1)
\* floor of the square root
isqrt(n) == isqrtFrom(n, 0)
\* abs() of a complex number; exact on the chords of the input paths
Abs(v) == isqrt(Norm2(v))

\* abs(v) > d for an integer d, decided on the squares
AbsGreater(v, d) == Norm2(v) > d * d

\* ------------------------------------------------------------------ angles
\* Cusp._get_angle: 0 when a vector is zero, else atan2 of vector1/vector2,
\* kept as the direction <<Re, Im>> of vector1 * conj(vector2).
get_angle(vector1, vector2) ==
  IF vector1 = Zero \/ vector2 = Zero
  THEN <<1, 0>>
  ELSE <<vector1[1] * vector2[1] + vector1[2] * vector2[2],
         vector1[2] * vector2[1] - vector1[1] * vector2[2]>>

\* abs(angle) > atan(t[1]/t[2]) for a threshold below pi/2
AbsAngleAbove(angle, t) ==
  \/ angle[1] <= 0
  \/ AbsInt(angle[2]) * t[2] > angle[1] * t[1]
\* abs(angle) < atan(t[1]/t[2]); the thresholds used are never attained
AbsAngleBelow(angle, t) == ~AbsAngleAbove(angle, t)

\* abs(angle1) > abs(angle2)
AbsAngleGreater(angle1, angle2) ==
  LET cross == angle2[1] * AbsInt(angle1[2]) - AbsInt(angle2[2]) * angle1[1]
  IN  \/ cross > 0
      \/ cross = 0 /\ angle1[1] < 0 /\ angle2[1] > 0

\* abs(angle) == pi/2
IsRightAngle(angle) == angle[1] = 0 /\ angle[2] # 0
\* sign of the angle: 1, 0 or -1; sg is the sign of a +-pi result
Sign(angle, sg) ==
  IF angle[2] > 0 THEN 1
  ELSE IF angle[2] < 0 THEN -1
  ELSE IF angle[1] < 0 THEN sg ELSE 0

\* ---------------------------------------------------------------- segments
Line(s, e) == [type |-> "Line", start |-> s, control |-> e, end |-> e]
QuadraticBezier(s, c, e) ==
  [type |-> "QuadraticBezier", start |-> s, control |-> c, end |-> e]

\* Cusp._get_tangents(path, index), index counted from 0
get_tangents(path, index) ==
  LET segment1 == path[index + 1]
      segment2 == path[((index + 1) % Len(path)) + 1]
      tangent1 == IF segment1.type = "QuadraticBezier"
                     /\ segment1.end # segment1.control
                  THEN Sub(segment1.end, segment1.control)
                  ELSE Sub(segment1.end, segment1.start)
      tangent2 == IF segment2.type = "QuadraticBezier"
                     /\ segment2.control # segment2.end
                  THEN Sub(segment2.control, segment2.start)
                  ELSE Sub(segment2.end, segment2.start)
  IN  <<tangent1, tangent2>>

\* Cusp.__init__(paths, index), index = <<i, j>> counted from 0
Cusp(paths, index) ==
  LET t == get_tangents(paths[index[1] + 1], index[2])
  IN  [index |-> index,
       point |-> paths[index[1] + 1][index[2] + 1].end,
       tangent1 |-> t[1],
       tangent2 |-> t[2],
       angle |-> get_angle(t[1], t[2])]

\* -------------------------------------------------------------- Cusp.merge
\* the loop of merge: chord lengths summed walking forward from segment j
\* (exclusive) to segment target (inclusive), cyclically
RECURSIVE path_distance(_, _, _)
path_distance(path, j, target) ==
  IF j = target THEN 0
  ELSE LET j2 == (j + 1) % Len(path)
       IN  Abs(Sub(path[j2 + 1].end, path[j2 + 1].start))
           + path_distance(path, j2, target)

\* merge without the walk along the path: only the straight-line test
merge_without_walk(paths, self, other) ==
  IF AbsGreater(Sub(other.point, self.point), MAX_CUSP_MERGE_DISTANCE)
  THEN [ok |-> FALSE, other |-> other]
  ELSE LET moved == IF AbsAngleGreater(self.angle, other.angle)
                    THEN [other EXCEPT !.index = self.index,
                                       !.point = self.point]
                    ELSE other
       IN  [ok |-> TRUE,
            other |-> [moved EXCEPT
                         !.tangent1 = self.tangent1,
                         !.angle = get_angle(self.tangent1, moved.tangent2)]]

\* merge taking self's location also when the two angles are equal (>=)
merge_on_equal(paths, self, other) ==
  LET path == paths[self.index[1] + 1] IN
  IF AbsGreater(Sub(other.point, self.point), MAX_CUSP_MERGE_DISTANCE)
  THEN [ok |-> FALSE, other |-> other]
  ELSE IF path_distance(path, self.index[2], other.index[2])
            > MAX_CUSP_MERGE_DISTANCE
  THEN [ok |-> FALSE, other |-> other]
  ELSE LET moved == IF ~AbsAngleGreater(other.angle, self.angle)
                    THEN [other EXCEPT !.index = self.index,
                                       !.point = self.point]
                    ELSE other
       IN  [ok |-> TRUE,
            other |-> [moved EXCEPT
                         !.tangent1 = self.tangent1,
                         !.angle = get_angle(self.tangent1, moved.tangent2)]]

\* Cusp.merge(self, other): ok is the value returned, other is the (possibly
\* updated) cusp that `other` names after the call
merge(paths, self, other) ==
  LET path == paths[self.index[1] + 1] IN
  IF AbsGreater(Sub(other.point, self.point), MAX_CUSP_MERGE_DISTANCE)
  THEN [ok |-> FALSE, other |-> other]
  ELSE IF path_distance(path, self.index[2], other.index[2])
            > MAX_CUSP_MERGE_DISTANCE
  THEN [ok |-> FALSE, other |-> other]
  ELSE LET moved == IF AbsAngleGreater(self.angle, other.angle)
                    THEN [other EXCEPT !.index = self.index,
                                       !.point = self.point]
                    ELSE other
       IN  [ok |-> TRUE,
            other |-> [moved EXCEPT
                         !.tangent1 = self.tangent1,
                         !.angle = get_angle(self.tangent1, moved.tangent2)]]

\* ------------------------------------------------------------ Cusp.connect
\* _try_connect without the test of length against MAX_CROSSING_DISTANCE
try_connect_any_length(self, other, reverse, sg2, sg3) ==
  IF other.point = self.point THEN TRUE
  ELSE
    LET diff == Sub(other.point, self.point)
        other1 == IF reverse THEN other.tangent2 ELSE other.tangent1
        other2 == IF reverse THEN other.tangent1 ELSE other.tangent2
        f0 == get_angle(self.tangent1, diff)
        f1 == get_angle(diff, other2)
        f2 == get_angle(diff, self.tangent2)
        f3 == get_angle(other1, diff)
    IN  /\ Sign(f2, sg2) * Sign(f3, sg3) > 0
        /\ AbsAngleBelow(f0, CONNECT_ANGLE)
        /\ AbsAngleBelow(f1, CONNECT_ANGLE)
        /\ AbsAngleAbove(f2, CONNECT_ANGLE)
        /\ AbsAngleAbove(f3, CONNECT_ANGLE)

\* _try_connect with the angle thresholds the wrong way round: features 0 and
\* 1 must be wide, features 2 and 3 narrow
try_connect_swapped(self, other, reverse, sg2, sg3) ==
  IF other.point = self.point THEN TRUE
  ELSE
    LET diff == Sub(other.point, self.point) IN
    IF AbsGreater(diff, MAX_CROSSING_DISTANCE) THEN FALSE
    ELSE
      LET other1 == IF reverse THEN other.tangent2 ELSE other.tangent1
          other2 == IF reverse THEN other.tangent1 ELSE other.tangent2
          f0 == get_angle(self.tangent1, diff)
          f1 == get_angle(diff, other2)
          f2 == get_angle(diff, self.tangent2)
          f3 == get_angle(other1, diff)
      IN  /\ Sign(f2, sg2) * Sign(f3, sg3) > 0
          /\ AbsAngleAbove(f0, CONNECT_ANGLE)
          /\ AbsAngleAbove(f1, CONNECT_ANGLE)
          /\ AbsAngleBelow(f2, CONNECT_ANGLE)
          /\ AbsAngleBelow(f3, CONNECT_ANGLE)

\* Cusp._try_connect(self, other, reverse); sg2 and sg3 are the signs taken
\* by features[2] and features[3] when they are +-pi
try_connect(self, other, reverse, sg2, sg3) ==
  IF other.point = self.point THEN TRUE
  ELSE
    LET diff == Sub(other.point, self.point) IN
    IF AbsGreater(diff, MAX_CROSSING_DISTANCE) THEN FALSE
    ELSE
      LET other1 == IF reverse THEN other.tangent2 ELSE other.tangent1
          other2 == IF reverse THEN other.tangent1 ELSE other.tangent2
          f0 == get_angle(self.tangent1, diff)
          f1 == get_angle(diff, other2)
          f2 == get_angle(diff, self.tangent2)
          f3 == get_angle(other1, diff)
      IN  /\ Sign(f2, sg2) * Sign(f3, sg3) > 0
          /\ AbsAngleBelow(f0, CONNECT_ANGLE)
          /\ AbsAngleBelow(f1, CONNECT_ANGLE)
          /\ AbsAngleAbove(f2, CONNECT_ANGLE)
          /\ AbsAngleAbove(f3, CONNECT_ANGLE)

\* the sign choices of one call of connect: <<features[2], features[3] forward,
\* features[3] reversed>>
SignChoices == {<<s2, s3, s3r>> : s2 \in {-1, 1}, s3 \in {-1, 1}, s3r \in {-1, 1}}

\* Cusp.connect(self, other)
connect(self, other, sg) ==
  IF other.index = self.index THEN FALSE
  ELSE IF other.index[1] = self.index[1]
  THEN try_connect(self, other, FALSE, sg[1], sg[2])
  ELSE \/ try_connect(self, other, FALSE, sg[1], sg[2])
       \/ try_connect(self, other, TRUE, sg[1], sg[3])

\* --------------------------------------------------------------- break_path
RECURSIVE break_from(_, _, _)
\* the for loop of break_path from element k (counted from 1) on
break_from(path, k, subpaths) ==
  IF k > Len(path) THEN subpaths
  ELSE LET element == path[k]
           last == subpaths[Len(subpaths)]
           opened == IF element.start # last[Len(last)].end
                     THEN Append(subpaths, <<>>)
                     ELSE subpaths
       IN  break_from(path, k + 1,
             [opened EXCEPT ![Len(opened)] = Append(@, element)])

RECURSIVE break_from_else(_, _, _)
\* the loop of break_path with the append in an else branch: the element that
\* opens a sub-path is not put into it
break_from_else(path, k, subpaths) ==
  IF k > Len(path) THEN subpaths
  ELSE LET element == path[k]
           last == subpaths[Len(subpaths)]
       IN  break_from_else(path, k + 1,
             IF last # <<>> /\ element.start # last[Len(last)].end
             THEN Append(subpaths, <<>>)
             ELSE [subpaths EXCEPT ![Len(subpaths)] = Append(@, element)])
break_path_else(path) == break_from_else(path, 2, << <<path[1]>> >>)

break_path(path) == break_from(path, 2, << <<path[1]>> >>)

\* ---------------------------------------------------------------- get_cusps
\* the detection loop without the threshold: any non-zero angle is kept
detect_cusps_nonzero(paths, i) ==
  LET all == [j \in 1..Len(paths[i + 1]) |-> Cusp(paths, <<i, j - 1>>)]
      keep(cusp) == cusp.angle[2] # 0 \/ cusp.angle[1] < 0
  IN  SelectSeq(all, keep)

\* the detection loop of get_cusps for sub-path i (counted from 0)
detect_cusps(paths, i) ==
  LET all == [j \in 1..Len(paths[i + 1]) |-> Cusp(paths, <<i, j - 1>>)]
      keep(cusp) == AbsAngleAbove(cusp.angle, MIN_CUSP_ANGLE)
  IN  SelectSeq(all, keep)

\* cusps.pop(j), j counted from 0
Pop(cusps, j) ==
  [n \in 1..(Len(cusps) - 1) |-> IF n <= j THEN cusps[n] ELSE cusps[n + 1]]

\* an iteration that does not advance the scan index when merge fails
merge_iter_stuck(paths, cusps, j) ==
  LET nxt == (j + 1) % Len(cusps)
      m == merge(paths, cusps[j + 1], cusps[nxt + 1])
  IN  IF m.ok
      THEN <<Pop([cusps EXCEPT ![nxt + 1] = m.other], j), j>>
      ELSE <<cusps, j>>

\* one iteration of the merge loop of get_cusps: the new <<cusps, j>>
merge_iter(paths, cusps, j) ==
  LET nxt == (j + 1) % Len(cusps)
      m == merge(paths, cusps[j + 1], cusps[nxt + 1])
  IN  IF m.ok
      THEN <<Pop([cusps EXCEPT ![nxt + 1] = m.other], j), j>>
      ELSE <<cusps, j + 1>>

RECURSIVE merge_loop(_, _, _)
\* the merge loop of get_cusps run to its end from index j
merge_loop(paths, cusps, j) ==
  IF j < Len(cusps)
  THEN LET r == merge_iter(paths, cusps, j) IN merge_loop(paths, r[1], r[2])
  ELSE cusps

\* ------------------------------------------------------------------- inputs
\* lattice points the outlines are drawn on
Points == {<<0, 0>>, <<20, 0>>, <<20, 20>>, <<0, 20>>,
           <<5, 0>>, <<5, 12>>, <<0, 90>>}
\* where the pen lands after a move (the start of a later contour)
MovePoints == {<<0, 0>>}
HasIntegralLength(s) == isqrt(Norm2(Sub(s.end, s.start))) ^ 2
                          = Norm2(Sub(s.end, s.start))
\* the segments a parsed path is made of: straight lines between the points,
\* a zero-length line, and a few quadratic curves
Segments ==
  {s \in {Line(p, q) : p \in Points, q \in Points} :
     /\ s.start = s.end => s.start = <<0, 0>>
     /\ HasIntegralLength(s)}
  \cup {QuadraticBezier(<<0, 0>>, <<20, 20>>, <<20, 0>>),
        QuadraticBezier(<<5, 0>>, <<5, 0>>, <<0, 0>>),
        QuadraticBezier(<<20, 0>>, <<5, 0>>, <<5, 0>>)}

\* -------------------------------------------------------------------- state
VARIABLES
  pc,        \* position in augment_glyph / get_cusps
  penMoves,  \* parse_path: pen moves the path data still holds
  glyph,     \* the path as parsed from the glyph
  path,      \* the path without its zero-length elements
  paths,     \* break_path(path)
  i,         \* get_cusps: index of the sub-path being processed
  cusps,     \* get_cusps: cusp list of sub-path i
  j,         \* get_cusps: scan index of the merge loop
  result,    \* get_cusps: cusps of the sub-paths done (augment_glyph: cusps)
  a,         \* augment_glyph: index of `cusp` in the connection pass
  b,         \* augment_glyph: index of `other` in the connection pass
  output,    \* augment_glyph: the circles and lines appended to result
  detected,  \* history: cusps as the detection loop left it
  iters      \* history: iterations of the merge loop on sub-path i

vars == <<pc, penMoves, glyph, path, paths, i, cusps, j, result, a, b, output,
          detected, iters>>

InitState ==
  /\ glyph = <<>>
  /\ pc = "parse"
  /\ path = <<>>
  /\ paths = <<>>
  /\ i = 0
  /\ cusps = <<>>
  /\ j = 0
  /\ result = <<>>
  /\ a = 0
  /\ b = 0
  /\ output = <<>>
  /\ detected = <<>>
  /\ iters = 0

\* path data of several contours
Init == InitState /\ penMoves = 1
\* path data of one contour
InitContour == InitState /\ penMoves = 0

\* svg.path.parse_path reads one more segment of the path data: it starts
\* where the last one ended, or where a pen move lands
ParseSegment ==
  /\ pc = "parse"
  /\ Len(glyph) < MaxSegs
  /\ \E s \in Segments :
       /\ glyph' = Append(glyph, s)
       /\ IF Len(glyph) = 0 THEN penMoves' = penMoves
          ELSE IF s.start = glyph[Len(glyph)].end THEN penMoves' = penMoves
          ELSE /\ s.start \in MovePoints
               /\ penMoves > 0
               /\ penMoves' = penMoves - 1
  /\ UNCHANGED <<pc, path, paths, i, cusps, j, result, a, b, output,
                 detected, iters>>

IsProper(element) == element.start # element.end

\* augment_glyph: drop the zero-length elements; an empty path fails the assert
FilterPath ==
  /\ pc = "parse"
  /\ path' = SelectSeq(glyph, IsProper)
  /\ pc' = IF path' = <<>> THEN "failed" ELSE "break"
  /\ UNCHANGED <<penMoves, glyph, paths, i, cusps, j, result, a, b, output,
                 detected, iters>>

\* augment_glyph: paths = break_path(path)
BreakPath ==
  /\ pc = "break"
  /\ paths' = break_path(path)
  /\ pc' = "detect"
  /\ UNCHANGED <<penMoves, glyph, path, i, cusps, j, result, a, b, output,
                 detected, iters>>

\* get_cusps: the detection loop of sub-path i, then j = 0
Detect ==
  /\ pc = "detect"
  /\ i < Len(paths)
  /\ cusps' = detect_cusps(paths, i)
  /\ detected' = cusps'
  /\ j' = 0
  /\ iters' = 0
  /\ pc' = "merge"
  /\ UNCHANGED <<penMoves, glyph, path, paths, i, result, a, b, output>>

\* get_cusps: one iteration of the merge loop
MergeStep ==
  /\ pc = "merge"
  /\ j < Len(cusps)
  /\ LET r == merge_iter(paths, cusps, j)
     IN  cusps' = r[1] /\ j' = r[2]
  /\ iters' = iters + 1
  /\ UNCHANGED <<pc, penMoves, glyph, path, paths, i, result, a, b, output, detected>>

\* get_cusps: the merge loop is over, result.extend(cusps), next sub-path
Extend ==
  /\ pc = "merge"
  /\ j >= Len(cusps)
  /\ result' = result \o cusps
  /\ i' = i + 1
  /\ pc' = "detect"
  /\ UNCHANGED <<penMoves, glyph, path, paths, cusps, j, a, b, output, detected, iters>>

Circle(cusp) == [kind |-> "circle", p1 |-> cusp.point, p2 |-> cusp.point,
                 angle |-> cusp.angle]
LineMark(cusp, other) == [kind |-> "line", p1 |-> cusp.point,
                          p2 |-> other.point, angle |-> <<1, 0>>]

\* get_cusps returns; augment_glyph appends one circle per cusp
DrawCircles ==
  /\ pc = "detect"
  /\ i >= Len(paths)
  /\ output' = [n \in 1..Len(result) |-> Circle(result[n])]
  /\ a' = 0
  /\ b' = 0
  /\ pc' = "connect"
  /\ UNCHANGED <<penMoves, glyph, path, paths, i, cusps, j, result, detected, iters>>

\* augment_glyph: one pair (cusp, other) of the connection pass
ConnectStep ==
  /\ pc = "connect"
  /\ a < Len(result)
  /\ \E drawn \in {connect(result[a + 1], result[b + 1], sg) :
                     sg \in SignChoices} :
       output' = IF drawn
                 THEN Append(output, LineMark(result[a + 1], result[b + 1]))
                 ELSE output
  /\ IF b + 1 < Len(result)
     THEN a' = a /\ b' = b + 1
     ELSE a' = a + 1 /\ b' = 0
  /\ UNCHANGED <<pc, penMoves, glyph, path, paths, i, cusps, j, result, detected, iters>>

\* augment_glyph returns
Return ==
  /\ pc = "connect"
  /\ a >= Len(result)
  /\ pc' = "done"
  /\ UNCHANGED <<penMoves, glyph, path, paths, i, cusps, j, result, a, b, output,
                 detected, iters>>

Next ==
  \/ ParseSegment
  \/ FilterPath
  \/ BreakPath
  \/ Detect
  \/ MergeStep
  \/ Extend
  \/ DrawCircles
  \/ ConnectStep
  \/ Return

Spec == Init /\ [][Next]_vars
\* get_cusps is sequential code: on the path data of one contour, a merge
\* loop that can make a step makes it
FairSpec ==
  InitContour /\ [][Next]_vars /\ WF_vars(MergeStep) /\ WF_vars(Extend)

\* ------------------------------------------------------------------ helpers
RECURSIVE Flatten(_)
\* concatenation of the sub-paths' segments, in order
Flatten(ps) == IF ps = <<>> THEN <<>> ELSE Head(ps) \o Flatten(Tail(ps))

\* the merge loop of sub-path i has run to its end
MergeDone == pc = "merge" /\ j >= Len(cusps)
\* get_cusps has returned
Returned == pc \in {"connect", "done"}
\* a step of the merge loop
MergeIteration == pc = "merge" /\ iters' = iters + 1
\* the pair (c, next) the merge loop looks at
MergeSelf == cusps[j + 1]
MergeOther == cusps[((j + 1) % Len(cusps)) + 1]
\* the cusp is as the detection loop made it
Untouched(cusp) == cusp = Cusp(paths, cusp.index)
\* the line marks among the output
LineMarks == {n \in DOMAIN output : output[n].kind = "line"}

\* ------------------------------------------------------------------- claims

\* C1: the merge loop is idempotent: run again on the list it produced, it
\* returns that list unchanged.
C1_MergeIdempotent ==
  MergeDone => merge_loop(paths, cusps, 0) = cusps

\* C2: two detected cusps 5 units apart with a forward path length of 5 units
\* are merged into one: the merged list holds exactly one cusp.
C2_Scenario ==
  /\ MergeDone
  /\ Len(detected) = 2
  /\ Norm2(Sub(detected[2].point, detected[1].point)) = 5 * 5
  /\ path_distance(paths[i + 1], detected[1].index[2], detected[2].index[2]) = 5
C2_TwoCloseCuspsBecomeOne ==
  C2_Scenario => Len(cusps) = 1

\* C3: the connection pass emits at most one line per unordered pair of cusp
\* points.
C3_OneEdgePerPair ==
  \A m \in LineMarks : \A n \in LineMarks :
    m # n => {output[m].p1, output[m].p2} # {output[n].p1, output[n].p2}

\* C4: the merge loop never lengthens the cusp list, and every merge joins a
\* pair (c, next) whose straight-line distance and forward path length are
\* both at most MAX_CUSP_MERGE_DISTANCE at the moment of the merge.
C4_MergeOnlyClose ==
  [][MergeIteration =>
       /\ Len(cusps') <= Len(cusps)
       /\ cusps' # cusps =>
            /\ Len(cusps') = Len(cusps) - 1
            /\ Norm2(Sub(MergeOther.point, MergeSelf.point))
                 <= MAX_CUSP_MERGE_DISTANCE * MAX_CUSP_MERGE_DISTANCE
            /\ path_distance(paths[i + 1], MergeSelf.index[2],
                             MergeOther.index[2]) <= MAX_CUSP_MERGE_DISTANCE
    ]_vars
\* a merge was performed on a pair of different cusps
C4_Witness ==
  pc = "merge" /\ Len(cusps) >= 1 /\ Len(cusps) < Len(detected)

\* C5: break_path partitions the path: the sub-paths, concatenated in order,
\* are the original segment sequence, and no sub-path is empty.
C5_Partition ==
  pc \in {"detect", "merge", "connect", "done"} =>
    /\ Flatten(paths) = path
    /\ \A n \in DOMAIN paths : paths[n] # <<>>
C5_Witness ==
  pc = "detect" /\ Len(paths) >= 2 /\ Len(path) >= 3

\* C6: connect(a, a) is false, cusps more than MAX_CROSSING_DISTANCE apart are
\* not joined by _try_connect in either orientation whatever their tangents,
\* and so every line emitted joins two cusps of different index that are at
\* most MAX_CROSSING_DISTANCE apart.
ProbeTangents == {<<1, 0>>, <<0, -1>>, <<-3, 4>>}
C6_PairOK(self, other) ==
  \A sg \in SignChoices :
    /\ ~connect(self, self, sg)
    /\ AbsGreater(Sub(other.point, self.point), MAX_CROSSING_DISTANCE) =>
         \A t1 \in ProbeTangents \cup {other.tangent1} :
           \A t2 \in ProbeTangents \cup {other.tangent2} :
             LET o == [other EXCEPT !.tangent1 = t1, !.tangent2 = t2]
             IN  /\ ~try_connect(self, o, FALSE, sg[1], sg[2])
                 /\ ~try_connect(self, o, TRUE, sg[1], sg[3])
                 /\ ~try_connect(o, self, FALSE, sg[1], sg[2])
                 /\ ~try_connect(o, self, TRUE, sg[1], sg[3])
C6_NoSelfNoFarEdge ==
  /\ [](pc = "connect" /\ a < Len(result) =>
          C6_PairOK(result[a + 1], result[b + 1]))
  /\ [][pc = "connect" /\ Len(output') > Len(output) =>
          /\ result[a + 1].index # result[b + 1].index
          /\ Norm2(Sub(result[b + 1].point, result[a + 1].point))
               <= MAX_CROSSING_DISTANCE * MAX_CROSSING_DISTANCE
       ]_vars
\* the connection pass looked at two cusps 70 units apart, and drew a line
C6_Witness ==
  /\ pc = "connect"
  /\ a >= 1
  /\ a < Len(result)
  /\ Norm2(Sub(result[b + 1].point, result[a + 1].point)) = 70 * 70
  /\ LineMarks # {}

\* C7: a single square sub-path of 4 lines with side above
\* MAX_CUSP_MERGE_DISTANCE yields 4 cusps of angle +-pi/2, which the merge
\* loop leaves alone, and no edge.
Side(n) == Sub(path[n].end, path[n].start)
IsSquare ==
  /\ Len(path) = 4
  /\ \A n \in 1..4 :
       /\ path[n].type = "Line"
       /\ path[(n % 4) + 1].start = path[n].end
       /\ Norm2(Side(n)) = Norm2(Side(1))
       /\ Side(n)[1] * Side((n % 4) + 1)[1]
            + Side(n)[2] * Side((n % 4) + 1)[2] = 0
  /\ AbsGreater(Side(1), MAX_CUSP_MERGE_DISTANCE)
C7_Square ==
  (IsSquare /\ Returned) =>
    /\ Len(paths) = 1
    /\ Len(detected) = 4
    /\ \A n \in 1..4 : IsRightAngle(detected[n].angle)
    /\ result = detected
    /\ \A n \in 1..4 : Untouched(result[n])
    /\ LineMarks = {}
\* a square with a side short enough for the classifier to decide was done
C7_Witness ==
  /\ IsSquare
  /\ pc = "done"
  /\ ~AbsGreater(Side(1), MAX_CROSSING_DISTANCE)
  /\ Len(output) = 4

\* C8: the merge loop ends: every iteration either removes one cusp or
\* advances the scan index by one, and it makes at most twice as many
\* iterations as there were cusps.
C8_MergeTerminates ==
  /\ [](pc = "merge" => iters <= 2 * Len(detected))
  /\ [][MergeIteration =>
          \/ Len(cusps') = Len(cusps) - 1 /\ j' = j
          \/ cusps' = cusps /\ j' = j + 1
       ]_vars
  /\ (pc = "merge") ~> (pc # "merge")
\* a merge loop that both merged and advanced has ended
C8_Witness ==
  /\ MergeDone
  /\ iters >= 3
  /\ Len(cusps) < Len(detected)
  /\ j >= 1

\* C9: a successful merge(c, next) leaves a cusp at the location of the one
\* with the larger |angle| (next's when equal), with c's tangent_in, next's
\* tangent_out and the angle of (c.tangent_in, next.tangent_out); a failed
\* merge changes nothing.
C9_Survivor ==
  LET c == MergeSelf
      n == MergeOther
      pos == (j + 1) % Len(cusps)
      kept == cusps'[IF pos > j THEN pos ELSE pos + 1]
      loc == IF AbsAngleGreater(c.angle, n.angle) THEN c ELSE n
  IN  kept = [index |-> loc.index,
              point |-> loc.point,
              tangent1 |-> c.tangent1,
              tangent2 |-> n.tangent2,
              angle |-> get_angle(c.tangent1, n.tangent2)]
C9_MergeResult ==
  [][MergeIteration =>
       /\ j' = j => (Len(cusps') = Len(cusps) - 1
                     /\ (Len(cusps') > 0 => C9_Survivor)
                     /\ \A n \in 1..Len(cusps') :
                          n # (IF (j + 1) % Len(cusps) > j
                               THEN (j + 1) % Len(cusps)
                               ELSE ((j + 1) % Len(cusps)) + 1)
                          => cusps'[n] = Pop(cusps, j)[n])
       /\ j' # j => cusps' = cusps
    ]_vars
\* merges have left a cusp at c's location (with next's tangent_out) and a
\* cusp at next's location (with c's tangent_in)
C9_Witness ==
  /\ pc = "merge"
  /\ \E n \in DOMAIN cusps :
       cusps[n].tangent2 # Cusp(paths, cusps[n].index).tangent2
  /\ \E n \in DOMAIN cusps :
       cusps[n].tangent1 # Cusp(paths, cusps[n].index).tangent1

\* C10: every cusp of the list get_cusps returns has |angle| > MIN_CUSP_ANGLE.
C10_ReturnedAboveMin ==
  Returned =>
    \A n \in DOMAIN result : AbsAngleAbove(result[n].angle, MIN_CUSP_ANGLE)
\* C10 as amended: the cusps the detection loop appends have
\* |angle| > MIN_CUSP_ANGLE, and so has every returned cusp that no merge
\* altered.
C10_DetectedAboveMin ==
  /\ \A n \in DOMAIN detected :
       AbsAngleAbove(detected[n].angle, MIN_CUSP_ANGLE)
  /\ \A n \in DOMAIN result :
       Untouched(result[n]) =>
         AbsAngleAbove(result[n].angle, MIN_CUSP_ANGLE)
\* returned: a cusp no merge altered next to a merged one of angle 0
C10_Witness ==
  /\ Returned
  /\ \E n \in DOMAIN result : Untouched(result[n])
  /\ \E n \in DOMAIN result :
       ~Untouched(result[n]) /\ result[n].angle[2] = 0 /\ result[n].angle[1] > 0
====
